---- MODULE Spec2Model ----
(***************************************************************************)
(* A model of unified-browser-platform/python-agent/browser_use_agent.py:  *)
(* the UnifiedBrowserUseAgent class (provider resolution, agent creation   *)
(* with its fallback, task execution with token accounting, cleanup, the   *)
(* three remote API calls) and main(), the command-line entry point.       *)
(*                                                                         *)
(* Strings of the environment are TLA+ strings; None is the value None.    *)
(* Command-line tokens are sequences of atoms: an atom is a piece of text  *)
(* the code never looks inside (" ", a no-break space, "--api",            *)
(* "--disable-highlighting", a word).  Adjacent atoms are concatenated.    *)
(***************************************************************************)
EXTENDS Integers, Sequences, FiniteSets, TLC

VARIABLES
    environ,        \* os.environ, as read by os.getenv
    argv,           \* sys.argv[1:]
    pc,             \* the position of the running code
    self,           \* the attributes of the UnifiedBrowserUseAgent object
    locals,         \* the local variables of main()
    frame,          \* the local variables of execute_task / create_agent
    agents,         \* the Agent objects constructed so far
    sessions,       \* the BrowserSession objects constructed so far
    usage_history,  \* agent.token_cost_service.usage_history of self.agent
    clients,        \* the number of provider clients constructed
    http,           \* the HTTP requests sent to the platform API
    stdout,         \* what was printed, in order
    exit_code       \* <<>> while the process runs, then <<exit status>>

vars == <<environ, argv, pc, self, locals, frame, agents, sessions,
          usage_history, clients, http, stdout, exit_code>>

----------------------------------------------------------------------------
(* Values *)

None == "<None>"

Truthy(v) == v # None /\ v # ""

NoLLM == [kind |-> None, model |-> None]

\* exit_code is <<>> while the process runs and <<status>> once it has ended
Exited(status) == exit_code = <<status>>

----------------------------------------------------------------------------
(* The environment: load_environment *)

EnvNames == {"AZURE_OPENAI_API_KEY", "AZURE_OPENAI_ENDPOINT",
             "AZURE_OPENAI_DEPLOYMENT_NAME", "OPENAI_API_KEY",
             "GOOGLE_API_KEY", "LLM_PROVIDER", "BROWSER_PORT"}

getenv(env, name, default) == IF env[name] = None THEN default ELSE env[name]

\* str.lower() on the provider tags the model draws
lower(s) ==
    CASE s = "OpenAI" -> "openai"
      [] s = "GOOGLE" -> "google"
      [] s = "Azure" -> "azure"
      [] OTHER -> s

\* int() on the port strings the model draws: "9222" parses, "abc" does not
PortParses(s) == s = "9222"

NewObject ==
    [constructed |-> FALSE,
     azure_api_key |-> None, azure_endpoint |-> None, azure_deployment |-> None,
     openai_api_key |-> None, google_api_key |-> None, llm_provider |-> None,
     llm |-> NoLLM, disable_highlighting |-> FALSE,
     browser_session |-> 0, agent |-> 0]

load_environment(s, env) ==
    [s EXCEPT
       !.azure_api_key = env["AZURE_OPENAI_API_KEY"],
       !.azure_endpoint = env["AZURE_OPENAI_ENDPOINT"],
       !.azure_deployment = getenv(env, "AZURE_OPENAI_DEPLOYMENT_NAME", "gpt-4.1"),
       !.openai_api_key = env["OPENAI_API_KEY"],
       !.google_api_key = env["GOOGLE_API_KEY"],
       !.llm_provider = lower(getenv(env, "LLM_PROVIDER", "azure"))]

\* int(os.getenv("BROWSER_PORT", "9222")) raises ValueError on a non-number
load_environment_raises(env) == ~PortParses(getenv(env, "BROWSER_PORT", "9222"))

----------------------------------------------------------------------------
(* Provider resolution: setup_llm *)

AzureComplete(s) ==
    Truthy(s.azure_api_key) /\ Truthy(s.azure_endpoint) /\ Truthy(s.azure_deployment)

ChatAzureOpenAI(s) == [kind |-> "azure", model |-> s.azure_deployment]
ChatOpenAI(s) == [kind |-> "openai", model |-> "gpt-4o"]
ChatGoogle(s) == [kind |-> "google", model |-> "gemini-2.0-flash"]

\* The outcome of one call: the object after it, whether ValueError was raised,
\* and how many provider clients the call constructed.
resolve_provider(s) ==
    IF s.llm_provider = "azure" /\ AzureComplete(s)
      THEN [self |-> [s EXCEPT !.llm = ChatAzureOpenAI(s)], raised |-> FALSE, built |-> 1]
    ELSE IF s.llm_provider = "openai" /\ Truthy(s.openai_api_key)
      THEN [self |-> [s EXCEPT !.llm = ChatOpenAI(s)], raised |-> FALSE, built |-> 1]
    ELSE IF s.llm_provider = "google" /\ Truthy(s.google_api_key)
      THEN [self |-> [s EXCEPT !.llm = ChatGoogle(s)], raised |-> FALSE, built |-> 1]
    ELSE IF AzureComplete(s)
      THEN [self |-> [s EXCEPT !.llm = ChatAzureOpenAI(s)], raised |-> FALSE, built |-> 1]
    ELSE [self |-> s, raised |-> TRUE, built |-> 0]

\* setup_llm without the early return on a resolved provider
setup_llm_uncached(s) == resolve_provider(s)

\* setup_llm with a fallback to whichever provider has a key
setup_llm_anyprovider(s) ==
    IF s.llm # NoLLM THEN [self |-> s, raised |-> FALSE, built |-> 0]
    ELSE IF resolve_provider(s).raised /\ Truthy(s.openai_api_key)
      THEN [self |-> [s EXCEPT !.llm = ChatOpenAI(s)], raised |-> FALSE, built |-> 1]
    ELSE resolve_provider(s)

setup_llm(s) ==
    IF s.llm # NoLLM THEN [self |-> s, raised |-> FALSE, built |-> 0]
    ELSE resolve_provider(s)

----------------------------------------------------------------------------
(* Direct use of the class: an object is constructed, setup_llm() is called *)
(* on it again, and load_environment() is called again after a change of    *)
(* one environment variable.                                                *)

MaxCalls == 2
MaxReloads == 1

EnvValues(name) ==
    CASE name = "AZURE_OPENAI_API_KEY" -> {None, "key"}
      [] name = "AZURE_OPENAI_ENDPOINT" -> {None, "https://az"}
      [] name = "AZURE_OPENAI_DEPLOYMENT_NAME" -> {None, "", "gpt-4o-mini"}
      [] name = "OPENAI_API_KEY" -> {None, "key"}
      [] name = "GOOGLE_API_KEY" -> {None, "key"}
      [] name = "LLM_PROVIDER" -> {None, "Azure", "OpenAI", "GOOGLE", "anthropic"}
      [] name = "BROWSER_PORT" -> {None, "abc"}

Env(key, endpoint, deployment, openai, google, provider, port) ==
    [n \in EnvNames |->
        CASE n = "AZURE_OPENAI_API_KEY" -> key
          [] n = "AZURE_OPENAI_ENDPOINT" -> endpoint
          [] n = "AZURE_OPENAI_DEPLOYMENT_NAME" -> deployment
          [] n = "OPENAI_API_KEY" -> openai
          [] n = "GOOGLE_API_KEY" -> google
          [] n = "LLM_PROVIDER" -> provider
          [] n = "BROWSER_PORT" -> port]

Envs ==
    {Env(key, endpoint, deployment, openai, google, provider, port) :
        key \in EnvValues("AZURE_OPENAI_API_KEY"),
        endpoint \in EnvValues("AZURE_OPENAI_ENDPOINT"),
        deployment \in EnvValues("AZURE_OPENAI_DEPLOYMENT_NAME"),
        openai \in EnvValues("OPENAI_API_KEY"),
        google \in EnvValues("GOOGLE_API_KEY"),
        provider \in EnvValues("LLM_PROVIDER"),
        port \in EnvValues("BROWSER_PORT")}

NoFrame == [op |-> None]

InitCommon ==
    /\ argv = <<>>
    /\ self = NewObject
    /\ locals = [outcome |-> None]
    /\ frame = NoFrame
    /\ agents = <<>>
    /\ sessions = <<>>
    /\ usage_history = <<>>
    /\ clients = 0
    /\ http = <<>>
    /\ stdout = <<>>
    /\ exit_code = <<>>

InitLLM ==
    /\ environ \in Envs
    /\ pc = "h_new"
    /\ InitCommon

\* __init__ with the provider resolution always deferred
init_object_deferred(env, defer_llm, disable_highlighting) ==
    IF load_environment_raises(env)
      THEN [self |-> NewObject, raised |-> TRUE, built |-> 0]
    ELSE [self |-> [load_environment(NewObject, env) EXCEPT
                       !.disable_highlighting = disable_highlighting,
                       !.constructed = TRUE],
          raised |-> FALSE, built |-> 0]

\* __init__ that resolves the provider whatever defer_llm says
init_object_eager(env, defer_llm, disable_highlighting) ==
    LET r == setup_llm([load_environment(NewObject, env) EXCEPT
                           !.disable_highlighting = disable_highlighting])
    IN  IF load_environment_raises(env) \/ r.raised
          THEN [self |-> NewObject, raised |-> TRUE, built |-> 0]
        ELSE [self |-> [r.self EXCEPT !.constructed = TRUE], raised |-> FALSE,
              built |-> r.built]

\* __init__(defer_llm): load_environment, llm = None, setup_llm unless deferred
init_object(env, defer_llm, disable_highlighting) ==
    LET s0 == [load_environment(NewObject, env) EXCEPT
                  !.disable_highlighting = disable_highlighting]
        r == setup_llm(s0)
    IN  IF load_environment_raises(env)
          THEN [self |-> NewObject, raised |-> TRUE, built |-> 0]
        ELSE IF defer_llm
          THEN [self |-> [s0 EXCEPT !.constructed = TRUE], raised |-> FALSE, built |-> 0]
        ELSE IF r.raised
          THEN [self |-> NewObject, raised |-> TRUE, built |-> 0]
        ELSE [self |-> [r.self EXCEPT !.constructed = TRUE], raised |-> FALSE,
              built |-> r.built]

H_Construct ==
    /\ pc = "h_new"
    /\ \E defer_llm \in BOOLEAN :
         LET r == init_object(environ, defer_llm, FALSE)
         IN  /\ self' = r.self
             /\ clients' = clients + r.built
             /\ pc' = IF r.raised THEN "h_raised" ELSE "h_ready"
             /\ frame' = [op |-> "__init__", raised |-> r.raised, cached |-> FALSE,
                          tried |-> (~defer_llm /\ ~load_environment_raises(environ)),
                          before |-> load_environment(NewObject, environ),
                          calls |-> 0, reloads |-> 0]
    /\ UNCHANGED <<environ, argv, locals, agents, sessions, usage_history, http,
                   stdout, exit_code>>

H_SetupLlm ==
    /\ pc = "h_ready"
    /\ frame.calls < MaxCalls
    /\ LET r == setup_llm(self)
       IN  /\ self' = r.self
           /\ clients' = clients + r.built
           /\ frame' = [frame EXCEPT !.op = "setup_llm", !.raised = r.raised,
                                     !.cached = (self.llm # NoLLM),
                                     !.tried = (self.llm = NoLLM),
                                     !.before = self, !.calls = @ + 1]
    /\ UNCHANGED <<environ, argv, pc, locals, agents, sessions, usage_history, http,
                   stdout, exit_code>>

\* os.environ[name] = value (or del os.environ[name]); then load_environment()
H_LoadEnvironment ==
    /\ pc = "h_ready"
    /\ frame.reloads < MaxReloads
    /\ \E name \in EnvNames \ {"BROWSER_PORT"} : \E value \in EnvValues(name) :
         /\ value # environ[name]
         /\ environ' = [environ EXCEPT ![name] = value]
    /\ self' = load_environment(self, environ')
    /\ frame' = [frame EXCEPT !.op = "load_environment", !.raised = FALSE,
                              !.cached = FALSE, !.tried = FALSE,
                              !.before = self, !.reloads = @ + 1]
    /\ UNCHANGED <<argv, pc, locals, agents, sessions, usage_history, clients, http,
                   stdout, exit_code>>

NextLLM == H_Construct \/ H_SetupLlm \/ H_LoadEnvironment

SpecLLM == InitLLM /\ [][NextLLM]_vars

----------------------------------------------------------------------------
(* Command-line tokens *)

SP == " "
NBSP == "\\xa0"
API == "--api"
DH == "--disable-highlighting"

NoneTok == <<None>>

TruthyTok(t) == t # NoneTok /\ t # <<>>

Contains(t, a) == \E i \in 1..Len(t) : t[i] = a

\* token.replace(flag, "")
remove(t, a) == SelectSeq(t, LAMBDA x : x # a)

Min(S) == CHOOSE i \in S : \A j \in S : i <= j
Max(S) == CHOOSE i \in S : \A j \in S : j <= i

\* token.strip(): from the first atom that is no space to the last one
strip_between(t, solid) == IF solid = {} THEN <<>> ELSE SubSeq(t, Min(solid), Max(solid))
strip(t) == strip_between(t, {i \in 1..Len(t) : t[i] # SP})

\* token.replace('\xa0', ' ').strip()
sanitize_token(t) == strip([i \in 1..Len(t) |-> IF t[i] = NBSP THEN SP ELSE t[i]])

\* '  ' in token
DoubleSpace(t) == \E i \in 1..(Len(t) - 1) : t[i] = SP /\ t[i + 1] = SP

\* [p for p in token.split(' ') if p]: the maximal runs of atoms that are no space
word_end(t, i) ==
    CHOOSE j \in i..Len(t) : /\ \A m \in i..j : t[m] # SP
                             /\ (j = Len(t) \/ t[j + 1] = SP)
kth(S, k) == CHOOSE i \in S : Cardinality({j \in S : j < i}) = k - 1
split_at(t, starts) ==
    [k \in 1..Cardinality(starts) |-> SubSeq(t, kth(starts, k), word_end(t, kth(starts, k)))]
split(t) == split_at(t, {i \in 1..Len(t) : t[i] # SP /\ (i = 1 \/ t[i - 1] = SP)})

\* int(token) on the tokens the model draws: one numeric atom parses
IntAtoms == {"15", "20"}
IsInt(t) == Len(t) = 1 /\ t[1] \in IntAtoms
IntValue(t) == IF t[1] = "15" THEN 15 ELSE 20

\* token.startswith('ws://')
WsAtoms == {"ws://bad-host/x"}
startswith_ws(t) == t # <<>> /\ t[1] \in WsAtoms

\* one round of the flag loop of main (lines 476-486) on one token: which flags
\* it held, whether it is appended to cleaned_args, and what is left of it
flags(has_api, has_dh, kept, token) ==
    [use_api |-> has_api, disable_highlighting |-> has_dh, kept |-> kept, token |-> token]
strip_dh_done(has_api, t2) == flags(has_api, TRUE, t2 # <<>>, t2)
strip_dh(has_api, t1) ==
    IF has_api /\ t1 = <<>> THEN flags(TRUE, FALSE, FALSE, t1)
    ELSE IF Contains(t1, DH) THEN strip_dh_done(has_api, strip(remove(t1, DH)))
    ELSE flags(has_api, FALSE, TRUE, t1)
strip_flags(token) ==
    IF Contains(token, API) THEN strip_dh(TRUE, strip(remove(token, API)))
    ELSE strip_dh(FALSE, token)

\* the flag loop of main over all tokens
tokens_of(kept) == [i \in 1..Len(kept) |-> kept[i].token]
collect(f) ==
    [use_api |-> \E i \in 1..Len(f) : f[i].use_api,
     disable_highlighting |-> \E i \in 1..Len(f) : f[i].disable_highlighting,
     args |-> tokens_of(SelectSeq(f, LAMBDA x : x.kept))]
clean_args(tokens) == collect([i \in 1..Len(tokens) |-> strip_flags(tokens[i])])

NoDoc ==
    [keys |-> {}, success |-> FALSE, task |-> NoneTok, error |-> None,
     llm_provider |-> None, deployment |-> None, final_result |-> None,
     browser_context_id |-> NoneTok, total_tokens |-> 0, total_cost |-> 0,
     model |-> None]

NoPayload == [type |-> "none", keys |-> {}, taskId |-> None]

\* the local variables of main after parsing
\* outcome: "usage" | "no_task" | "value_error" | "ok"
parsed(outcome, use_api, dh, task, max_steps, session_id, browser_context_id) ==
    [outcome |-> outcome, use_api |-> use_api,
     disable_highlighting |-> dh, task |-> task,
     max_steps |-> max_steps, session_id |-> session_id,
     browser_context_id |-> browser_context_id,
     result |-> NoDoc, payload |-> NoPayload]

\* main lines 490-502
positional(use_api, dh, args) ==
    IF Len(args) < 1 THEN parsed("no_task", use_api, dh, NoneTok, 10, NoneTok, NoneTok)
    ELSE IF Len(args) > 1 /\ ~IsInt(args[2])
      THEN parsed("value_error", use_api, dh, args[1], 10, NoneTok, NoneTok)
    ELSE parsed("ok", use_api, dh, args[1],
                IF Len(args) > 1 THEN IntValue(args[2]) ELSE 10,
                IF Len(args) > 2 THEN args[3] ELSE NoneTok,
                IF Len(args) > 3 THEN args[4] ELSE NoneTok)

\* main lines 494-497: the fallback split of a single token with a double space
fallback_split(args) ==
    IF Len(args) = 1 /\ DoubleSpace(args[1]) THEN split(args[1]) ELSE args

positional_of(c) == positional(c.use_api, c.disable_highlighting, fallback_split(c.args))

\* main lines 447-502, from sys.argv[1:] to the parsed arguments
parse_args(raw_args) ==
    IF Len(raw_args) < 1
      THEN parsed("usage", FALSE, FALSE, NoneTok, 10, NoneTok, NoneTok)
    ELSE positional_of(clean_args([i \in 1..Len(raw_args) |-> sanitize_token(raw_args[i])]))

----------------------------------------------------------------------------
(* Output, results, collaborators *)

diag(text) == [kind |-> "diag", text |-> text]
json(doc) == [kind |-> "json", doc |-> doc]

\* the usage records the agent's accounting hook may append
Records == {[prompt_tokens |-> 1, completion_tokens |-> 0],
            [prompt_tokens |-> 2, completion_tokens |-> 1],
            [prompt_tokens |-> 0, completion_tokens |-> 3]}

\* usage_history of a token cost service when agent.run() begins
InitialHistories == {<<>>, <<[prompt_tokens |-> 4, completion_tokens |-> 4]>>}

MaxRecords == 2

\* lines 266-267: prompt_tokens + completion_tokens of each new entry
entry_tokens(entry) == entry.prompt_tokens + entry.completion_tokens

SumTokens(entries) ==
    LET acc[i \in 0..Len(entries)] ==
            IF i = 0 THEN 0 ELSE acc[i - 1] + entry_tokens(entries[i])
    IN  acc[Len(entries)]

\* line 269, in units of $0.0001: prompt_tokens * 0.0001 + completion_tokens * 0.0003
entry_cost(entry) == entry.prompt_tokens + 3 * entry.completion_tokens

SumCost(entries) ==
    LET acc[i \in 0..Len(entries)] ==
            IF i = 0 THEN 0 ELSE acc[i - 1] + entry_cost(entries[i])
    IN  acc[Len(entries)]

\* the JSON bodies the platform may answer a task submission with
Payloads ==
    {[type |-> "dict", keys |-> {"taskId", "liveUrl"}, taskId |-> "task-1"],
     [type |-> "dict", keys |-> {"success", "taskId", "liveUrl"}, taskId |-> "task-1"],
     [type |-> "dict", keys |-> {"liveUrl"}, taskId |-> None],
     [type |-> "dict", keys |-> {}, taskId |-> None],
     [type |-> "list", keys |-> {}, taskId |-> None]}

\* bool(result) of a decoded JSON body
TruthyPayload(p) == p.type = "list" \/ (p.type = "dict" /\ p.keys # {})

\* the body of the submission response, printed as it is
payload_doc(p) == [NoDoc EXCEPT !.keys = p.keys, !.success = ("success" \in p.keys)]

----------------------------------------------------------------------------
(* main: arguments *)

W(a) == <<a>>

Argvs ==
    {<<>>,
     <<W("search")>>,
     <<W("search"), W("abc")>>,
     <<<<"go", SP, SP, "15">>>>,
     <<W("search"), W("15"), W("sess1"), W("ws://bad-host/x")>>,
     <<W("search"), W("15"), W("sess1"), W("context_123")>>,
     <<<<"go", NBSP, "to">>, W("20"), W(DH)>>,
     <<W("search"), W(API)>>,
     <<W("search"), W("15"), W(API)>>,
     <<<<"go", SP, "to", SP, API, SP, "youtube">>>>,
     <<<<"go", SP, "to", SP, "youtube", SP, API>>>>,
     <<W(API)>>}

\* the environments main is run in: Azure's key and endpoint come together
MainEnvs ==
    {e \in Envs :
        /\ e["AZURE_OPENAI_DEPLOYMENT_NAME"] = None
        /\ (e["AZURE_OPENAI_API_KEY"] = None) = (e["AZURE_OPENAI_ENDPOINT"] = None)
        /\ e["LLM_PROVIDER"] # "Azure"}

Init ==
    /\ environ \in MainEnvs
    /\ argv \in Argvs
    /\ pc = "main"
    /\ self = NewObject
    /\ locals = [outcome |-> None]
    /\ frame = NoFrame
    /\ agents = <<>>
    /\ sessions = <<>>
    /\ usage_history = <<>>
    /\ clients = 0
    /\ http = <<>>
    /\ stdout = <<>>
    /\ exit_code = <<>>

\* the process ends: return from main (status 0), sys.exit(1) or an uncaught
\* exception (status 1)
exit(status) == pc' = "exit" /\ exit_code' = <<status>>

\* main, lines 438-511: usage, flag detection, positional arguments
main_parse ==
    /\ pc = "main"
    /\ locals' = parse_args(argv)
    /\ stdout' = Append(stdout, diag(locals'.outcome))
    /\ CASE locals'.outcome \in {"usage", "no_task"} -> exit(0)
         [] locals'.outcome = "value_error" -> exit(1)
         [] locals'.outcome = "ok" /\ locals'.use_api ->
              pc' = "api_construct" /\ UNCHANGED exit_code
         [] OTHER -> pc' = "local_construct" /\ UNCHANGED exit_code
    /\ UNCHANGED <<environ, argv, self, frame, agents, sessions, usage_history,
                   clients, http>>

----------------------------------------------------------------------------
(* main: the --api branch *)

\* url is the endpoint, id the path parameter (the task id of a status GET),
\* response what came back: "200" (with the field the caller reads),
\* "200-no-id", "500", or "error" (the request raised)
request(method, url, id, response) ==
    [method |-> method, url |-> url, id |-> id, response |-> response]

\* line 519: UnifiedBrowserUseAgent(defer_llm=True, ...), outside the try
main_api_construct ==
    /\ pc = "api_construct"
    /\ LET r == init_object(environ, TRUE, locals.disable_highlighting)
       IN  /\ self' = r.self
           /\ clients' = clients + r.built
           /\ stdout' = Append(stdout, diag("api mode"))
           /\ IF r.raised THEN exit(1)
              ELSE pc' = "api_create" /\ UNCHANGED exit_code
    /\ UNCHANGED <<environ, argv, locals, frame, agents, sessions, usage_history, http>>

\* a session helper that reports a session whatever the response
create_session_unchecked(response) == W("session-1")

\* create_session_via_api and main lines 523-526.  response: "200" with a
\* sessionId, "200-no-id" (no sessionId in the body), "500", "error" (the
\* request raised)
create_session_via_api(response) ==
    IF response = "200" THEN W("session-1") ELSE NoneTok

main_create_session ==
    /\ pc = "api_create"
    /\ \E response \in {"200", "200-no-id", "500", "error"} :
         LET session_id == create_session_via_api(response)
         IN  /\ http' = Append(http, request("POST", "/api/sessions/create", None, response))
             /\ locals' = [locals EXCEPT !.session_id = session_id]
             /\ IF ~TruthyTok(session_id)
                  THEN /\ stdout' = Append(stdout, diag("failed to create session"))
                       /\ exit(0)
                  ELSE /\ stdout' = Append(stdout, diag("session created"))
                       /\ pc' = "api_execute"
                       /\ UNCHANGED exit_code
    /\ UNCHANGED <<environ, argv, self, frame, agents, sessions, usage_history, clients>>

\* execute_task_via_api: the decoded body on status 200, None otherwise
execute_task_via_api(response, body) ==
    IF response = "200" THEN body ELSE NoPayload

\* main lines 529-535: submit; a falsy result returns, result.get on a body
\* that is no object raises into the except of line 565
main_execute_via_api ==
    /\ pc = "api_execute"
    /\ \E response \in {"200", "500", "error"} : \E body \in Payloads :
         LET result == execute_task_via_api(response, body)
         IN  /\ (response # "200" => body = CHOOSE b \in Payloads : b.type = "list")
             /\ http' = Append(http, request("POST", "/api/browser-use/execute", None, response))
             /\ locals' = [locals EXCEPT !.payload = result]
             /\ IF ~TruthyPayload(result)
                  THEN /\ stdout' = Append(stdout, diag("failed to execute task"))
                       /\ exit(0)
                  ELSE IF result.type # "dict"
                  THEN /\ stdout' = Append(stdout, diag("error during API execution"))
                       /\ exit(0)
                  ELSE /\ stdout' = Append(stdout, diag("task submitted"))
                       /\ pc' = IF Truthy(result.taskId) THEN "api_monitor_1"
                                ELSE "api_print"
                       /\ UNCHANGED exit_code
    /\ UNCHANGED <<environ, argv, self, frame, agents, sessions, usage_history, clients>>

\* monitor_task_progress: one GET; the body on 200, None otherwise
monitor_task_progress(response) == response = "200"

\* main lines 536-545 (first block) and 548-558 (the same block again)
main_monitor(at, next) ==
    /\ pc = at
    /\ \E response \in {"200", "500", "error"} :
         /\ http' = Append(http, request("GET", "/api/browser-use/status",
                                          locals.payload.taskId, response))
         /\ stdout' = Append(stdout, diag(IF monitor_task_progress(response)
                                          THEN "progress retrieved"
                                          ELSE "could not retrieve progress"))
    /\ pc' = next
    /\ UNCHANGED <<environ, argv, self, locals, frame, agents, sessions,
                   usage_history, clients, exit_code>>

main_monitor_first == main_monitor("api_monitor_1", "api_monitor_2")
main_monitor_second == main_monitor("api_monitor_2", "api_print")

\* main lines 560-563: the submission response is printed as the final result
main_api_print ==
    /\ pc = "api_print"
    /\ stdout' = stdout \o <<diag("completed via API"), json(payload_doc(locals.payload))>>
    /\ locals' = [locals EXCEPT !.result = payload_doc(locals.payload)]
    /\ exit(0)
    /\ UNCHANGED <<environ, argv, self, frame, agents, sessions, usage_history,
                   clients, http>>

----------------------------------------------------------------------------
(* main: the local branch *)

\* lines 571-594: streaming URLs are printed, the object is constructed with
\* setup_llm (outside the try: an exception ends the process), the try block
\* is entered and execute_task called, unless the print of line 593 raises
main_local_construct ==
    /\ pc = "local_construct"
    /\ \E started \in BOOLEAN :
       LET r == init_object(environ, FALSE, locals.disable_highlighting)
       IN  /\ self' = r.self
           /\ clients' = clients + r.built
           /\ stdout' = Append(stdout, diag("creating agent object"))
           /\ (r.raised => started)
           /\ IF r.raised
                THEN exit(1) /\ UNCHANGED frame
                ELSE IF ~started
                THEN pc' = "main_except" /\ UNCHANGED <<exit_code, frame>>
                ELSE /\ pc' = "create_agent"
                     /\ UNCHANGED exit_code
                     \* line 594: execute_task(task, browser_context_id, max_steps)
                     \* line 243: create_agent(task, browser_context_id, max_steps)
                     /\ frame' = [op |-> "execute_task",
                                  task |-> locals.task,
                                  browser_context_id |-> locals.browser_context_id,
                                  max_steps |-> locals.max_steps,
                                  hint |-> locals.browser_context_id,
                                  ca_task |-> locals.task,
                                  ca_max_steps |-> locals.max_steps,
                                  depth |-> 1, attempts |-> 0, failures |-> 0,
                                  fallbacks |-> 0,
                                  initial_usage |-> <<>>, appended |-> <<>>,
                                  run |-> None]
    /\ UNCHANGED <<environ, argv, locals, agents, sessions, usage_history, http>>

\* an execute_task that lets the exception through to the caller
execute_task_reraise == "main_except"

\* execute_task lines 292-301: the except branch catches every Exception of
\* the try block and returns error_data: main continues at line 596
execute_task_except == "main_print"

\* execute_task lines 292-301: the except branch
error_data(f, s, message) ==
    [NoDoc EXCEPT
       !.keys = {"success", "task", "error", "llm_provider", "browser_context_id"},
       !.success = FALSE, !.task = f.task, !.error = message,
       !.llm_provider = s.llm_provider,
       !.browser_context_id = f.browser_context_id]

\* a fallback that passes the hint on
fallback_hint_kept(hint) == hint

\* the fallback of create_agent clears the hint
fallback_hint(hint) == <<>>

\* a fallback call that leaves max_steps to its default
fallback_call_default_steps(f) ==
    [f EXCEPT !.hint = fallback_hint(f.hint), !.ca_max_steps = 10,
              !.depth = @ + 1, !.fallbacks = @ + 1]

\* line 226: create_agent(task, "", max_steps), the frame of the re-invocation
fallback_call(f) ==
    [f EXCEPT !.hint = fallback_hint(f.hint), !.depth = @ + 1, !.fallbacks = @ + 1]

\* create_agent, one pass through its try block.  stage is where the pass
\* raises: "session" (BrowserSession), "agent" (Agent), "init"
\* (token_cost_service.initialize), or "none".  The Agent built has a token
\* cost service or not, a browser attribute or not, and a usage history.
create_agent ==
    /\ pc = "create_agent"
    /\ \E stage \in {"session", "agent", "init", "none"} :
       \E tcs \in BOOLEAN : \E has_browser \in BOOLEAN : \E history \in InitialHistories :
         LET hint == frame.hint
             remote == TruthyTok(hint) /\ startswith_ws(hint)
             session_built == remote /\ stage # "session"
             agent_built == stage \notin {"session", "agent"}
             sessions1 == IF session_built
                            THEN Append(sessions, [cdp_url |-> hint, closed |-> FALSE])
                            ELSE sessions
             new_agent == [task |-> frame.ca_task, llm |-> self.llm,
                           max_steps |-> frame.ca_max_steps,
                           browser_session |-> IF session_built THEN Len(sessions1) ELSE 0,
                           token_cost_service |-> tcs, has_browser |-> has_browser,
                           closed |-> FALSE]
             agents1 == IF agent_built THEN Append(agents, new_agent) ELSE agents
             f1 == [frame EXCEPT !.attempts = @ + 1,
                                 !.failures = IF stage = "none" THEN @ ELSE @ + 1]
         IN  /\ (stage = "session" => remote)
             /\ (stage = "init" => tcs)
             /\ (~agent_built => ~tcs /\ ~has_browser)
             /\ (~(agent_built /\ tcs) => history = <<>>)
             /\ sessions' = sessions1
             /\ agents' = agents1
             /\ self' = IF agent_built THEN [self EXCEPT !.agent = Len(agents1)] ELSE self
             /\ usage_history' = IF agent_built THEN history ELSE usage_history
             /\ IF stage = "none"
                  THEN \* lines 218-219, then execute_task lines 245-252
                       /\ frame' = [f1 EXCEPT !.initial_usage =
                                       IF tcs /\ history # <<>> THEN <<Len(history)>>
                                       ELSE <<>>]
                       /\ stdout' = Append(stdout, diag("created agent"))
                       /\ pc' = "agent_run"
                       /\ UNCHANGED locals
                  ELSE IF TruthyTok(hint)
                  THEN \* lines 224-226: create_agent(task, "", max_steps)
                       /\ frame' = fallback_call(f1)
                       /\ stdout' = Append(stdout, diag("falling back to new browser"))
                       /\ pc' = "create_agent"
                       /\ UNCHANGED locals
                  ELSE \* line 227 raise, caught at execute_task line 292
                       /\ frame' = f1
                       /\ stdout' = Append(stdout, diag("task failed"))
                       /\ locals' = [locals EXCEPT !.result =
                                        error_data(frame, self, "create_agent failed")]
                       /\ pc' = execute_task_except
    /\ UNCHANGED <<environ, argv, clients, http, exit_code>>

\* the accounting hook of the agent appends one usage record during agent.run()
agent_usage ==
    /\ pc = "agent_run"
    /\ agents[self.agent].token_cost_service
    /\ Len(frame.appended) < MaxRecords
    /\ \E entry \in Records :
         /\ usage_history' = Append(usage_history, entry)
         /\ frame' = [frame EXCEPT !.appended = Append(@, entry)]
    /\ UNCHANGED <<environ, argv, pc, self, locals, agents, sessions, clients, http,
                   stdout, exit_code>>

\* a count over the whole usage history, baseline ignored
new_entries_whole_history(tcs, history, initial_usage) ==
    IF tcs THEN history ELSE <<>>

\* execute_task lines 258-271: the entries after the baseline, when there is one
new_entries(tcs, history, initial_usage) ==
    IF tcs /\ history # <<>> /\ initial_usage # <<>> /\ Len(history) > initial_usage[1]
      THEN SubSeq(history, initial_usage[1] + 1, Len(history))
      ELSE <<>>

\* execution_data echoing the hint of the last create_agent pass
execution_data_last_hint(f, s, entries) ==
    [NoDoc EXCEPT
       !.keys = {"success", "task", "llm_provider", "deployment", "steps_executed",
                 "final_result", "browser_context_id", "token_usage"},
       !.success = TRUE, !.task = f.task,
       !.llm_provider = s.llm_provider,
       !.deployment = IF s.llm_provider = "azure" THEN s.azure_deployment ELSE "N/A",
       !.final_result = "history",
       !.browser_context_id = f.hint,
       !.total_tokens = SumTokens(entries),
       !.total_cost = SumCost(entries),
       !.model = s.llm_provider]

\* execute_task lines 273-287
execution_data(f, s, entries) ==
    [NoDoc EXCEPT
       !.keys = {"success", "task", "llm_provider", "deployment", "steps_executed",
                 "final_result", "browser_context_id", "token_usage"},
       !.success = TRUE, !.task = f.task,
       !.llm_provider = s.llm_provider,
       !.deployment = IF s.llm_provider = "azure" THEN s.azure_deployment ELSE "N/A",
       !.final_result = "history",
       !.browser_context_id = f.browser_context_id,
       !.total_tokens = SumTokens(entries),
       !.total_cost = SumCost(entries),
       !.model = s.llm_provider]

\* execute_task lines 255-301: agent.run() returns or raises
agent_run ==
    /\ pc = "agent_run"
    /\ \E outcome \in {"returns", "raises"} :
         LET entries == new_entries(agents[self.agent].token_cost_service,
                                    usage_history, frame.initial_usage)
         IN  /\ locals' = [locals EXCEPT !.result =
                              IF outcome = "returns"
                                THEN execution_data(frame, self, entries)
                                ELSE error_data(frame, self, "agent.run failed")]
             /\ stdout' = Append(stdout, diag(IF outcome = "returns"
                                              THEN "task completed" ELSE "task failed"))
             /\ frame' = [frame EXCEPT !.run = outcome]
             /\ pc' = IF outcome = "returns" THEN "main_print" ELSE execute_task_except
    /\ UNCHANGED <<environ, argv, self, agents, sessions, usage_history,
                   clients, http, exit_code>>

\* main lines 596-603: the result is printed, or line 603 (json.dumps, print)
\* raises before the document is written
main_print_result ==
    /\ pc = "main_print"
    /\ \E outcome \in {"printed", "raises"} :
         IF outcome = "printed"
           THEN /\ stdout' = stdout \o <<diag("outputting JSON result"),
                                         json(locals.result)>>
                /\ pc' = "cleanup"
           ELSE /\ stdout' = Append(stdout, diag("outputting JSON result"))
                /\ pc' = "main_except"
    /\ UNCHANGED <<environ, argv, self, locals, frame, agents, sessions,
                   usage_history, clients, http, exit_code>>

\* main lines 611-615
error_result(task, message) ==
    [NoDoc EXCEPT !.keys = {"success", "error", "task"},
                  !.success = FALSE, !.error = message, !.task = task]

\* main lines 605-618: the except branch prints error_result and calls
\* sys.exit(1); SystemExit is pending while the finally block runs
main_except ==
    /\ pc = "main_except"
    /\ stdout' = stdout \o <<diag("task execution failed"),
                              diag("outputting error JSON"),
                              json(error_result(locals.task, "exception in main"))>>
    /\ pc' = "cleanup_exiting"
    /\ UNCHANGED <<environ, argv, self, locals, frame, agents, sessions,
                   usage_history, clients, http, exit_code>>

\* main lines 620-623 and cleanup: the browser of self.agent is closed when the
\* agent has one; an exception of close() is printed and swallowed
finally_cleanup(at, status) ==
    /\ pc = at
    /\ \E close \in {"ok", "raises"} :
         LET has == self.agent # 0 /\ agents[self.agent].has_browser
         IN  /\ (~has => close = "ok")
             /\ agents' = IF has /\ close = "ok"
                            THEN [agents EXCEPT ![self.agent].closed = TRUE]
                            ELSE agents
             /\ stdout' = stdout \o <<diag("cleaning up agent")>>
                          \o (IF ~has THEN <<>>
                              ELSE IF close = "ok" THEN <<diag("browser resources cleaned up")>>
                              ELSE <<diag("error during cleanup")>>)
                          \o <<diag("finished")>>
    /\ exit(status)
    /\ UNCHANGED <<environ, argv, self, locals, frame, sessions, usage_history,
                   clients, http>>

\* a process that ends at sys.exit(1) without running the finally block
exit_without_finally ==
    /\ pc = "cleanup_exiting"
    /\ exit(1)
    /\ UNCHANGED <<environ, argv, self, locals, frame, agents, sessions,
                   usage_history, clients, http, stdout>>

\* a cleanup without its except branch: the exception of close() leaves the
\* finally block and ends the process
cleanup_unguarded ==
    /\ pc = "cleanup"
    /\ self.agent # 0
    /\ agents[self.agent].has_browser
    /\ stdout' = Append(stdout, diag("cleaning up agent"))
    /\ exit(1)
    /\ UNCHANGED <<environ, argv, self, locals, frame, agents, sessions,
                   usage_history, clients, http>>

\* the finally block after the try block completed: main returns
main_cleanup == finally_cleanup("cleanup", 0)

\* the finally block after sys.exit(1) of the except branch
main_cleanup_exiting == finally_cleanup("cleanup_exiting", 1)

Next ==
    \/ main_parse
    \/ main_api_construct
    \/ main_create_session
    \/ main_execute_via_api
    \/ main_monitor_first
    \/ main_monitor_second
    \/ main_api_print
    \/ main_local_construct
    \/ create_agent
    \/ agent_usage
    \/ agent_run
    \/ main_print_result
    \/ main_except
    \/ main_cleanup
    \/ main_cleanup_exiting

Spec == Init /\ [][Next]_vars

----------------------------------------------------------------------------
(* Properties of the provider resolution, checked under SpecLLM *)

OpenAIComplete(s) == Truthy(s.openai_api_key)
GoogleComplete(s) == Truthy(s.google_api_key)
AnyComplete(s) == AzureComplete(s) \/ OpenAIComplete(s) \/ GoogleComplete(s)

PreferredComplete(s) ==
    \/ s.llm_provider = "azure" /\ AzureComplete(s)
    \/ s.llm_provider = "openai" /\ OpenAIComplete(s)
    \/ s.llm_provider = "google" /\ GoogleComplete(s)

\* the state right after a resolution that found self.llm unset
Resolved == frame.op \in {"__init__", "setup_llm"} /\ frame.tried

\* C4: with at least one provider's credentials complete the resolution does
\* not fail, and with none complete it raises ValueError.
C4_ResolutionTotal ==
    Resolved => (AnyComplete(frame.before) <=> ~frame.raised)

C6_SetupIdempotent ==
    [][self.llm # NoLLM => (self'.llm = self.llm /\ clients' = clients)]_vars

C6_Witness ==
    /\ frame.op = "setup_llm"
    /\ frame.cached
    /\ frame.reloads = 1
    /\ ~resolve_provider(self).raised
    /\ resolve_provider(self).self.llm # self.llm
    /\ clients = 1

----------------------------------------------------------------------------
(* Properties of main, checked under Spec *)

JsonEntries == {i \in 1..Len(stdout) : stdout[i].kind = "json"}

Printed(text) == \E i \in 1..Len(stdout) : stdout[i] = diag(text)

\* a task was supplied and the arguments were parsed
TaskSupplied == pc # "main" /\ locals.outcome = "ok"

\* C1: a run that was given a task prints exactly one JSON result document.
C1_ExactlyOneJson ==
    pc = "exit" /\ TaskSupplied => Cardinality(JsonEntries) = 1

\* C2: every JSON result printed has a success field; final_result is present
\* and error absent when success is true, error is present and final_result
\* absent when it is false.
C2_ResultShape ==
    \A i \in JsonEntries :
        /\ "success" \in stdout[i].doc.keys
        /\ stdout[i].doc.success =>
             "final_result" \in stdout[i].doc.keys /\ "error" \notin stdout[i].doc.keys
        /\ ~stdout[i].doc.success =>
             "error" \in stdout[i].doc.keys /\ "final_result" \notin stdout[i].doc.keys

\* the task succeeded: the result of execute_task says so, or no stage of the
\* --api run failed
ApiStageFailed ==
    \/ Printed("failed to create session")
    \/ Printed("failed to execute task")
    \/ Printed("error during API execution")
    \/ Printed("could not retrieve progress")

TaskSucceeded ==
    IF locals.use_api
      THEN self.constructed /\ Len(http) >= 2 /\ ~ApiStageFailed
      ELSE locals.result.success

\* C3: the exit status is 0 exactly when the task succeeded, 1 when it failed.
C3_ExitCodeTellsSuccess ==
    pc = "exit" /\ TaskSupplied =>
        /\ Exited(0) <=> TaskSucceeded
        /\ ~TaskSucceeded => Exited(1)

\* the attributes load_environment gives the object in this environment
Loaded == load_environment(NewObject, environ)

NoWorkAttempted == sessions = <<>> /\ agents = <<>> /\ http = <<>>

\* C7: with no provider's credentials complete, in either mode, the process
\* exits non-zero and no BrowserSession or Agent is constructed and no request
\* is sent.
C7_NoCredentialsNoWork ==
    TaskSupplied /\ ~AnyComplete(Loaded) =>
        NoWorkAttempted /\ (pc = "exit" => Exited(1))

\* C7 as amended: the same for a run without the --api flag.
C7_LocalNoCredentialsNoWork ==
    TaskSupplied /\ ~locals.use_api /\ ~AnyComplete(Loaded) =>
        NoWorkAttempted /\ (pc = "exit" => Exited(1))

C7_Witness ==
    /\ pc = "exit"
    /\ TaskSupplied
    /\ ~locals.use_api
    /\ ~AnyComplete(Loaded)
    /\ ~load_environment_raises(environ)
    /\ Exited(1)

InExecuteTask == frame.op = "execute_task"

\* C8: create_agent called with a hint whose pass fails falls back to a pass
\* without hint once: at most one re-invocation and two passes per call, the
\* second pass runs with the hint cleared, and a failure of the second pass is
\* raised to execute_task, never retried.
C8_FallbackOnce ==
    InExecuteTask =>
        /\ frame.fallbacks <= 1
        /\ frame.attempts <= 2
        /\ frame.depth = 1 + frame.fallbacks
        /\ frame.fallbacks = 1 =>
             TruthyTok(frame.browser_context_id) /\ frame.hint = <<>>
        /\ pc = "create_agent" => frame.attempts = frame.fallbacks
        /\ frame.failures = 2 =>
             /\ pc \notin {"create_agent", "agent_run"}
             /\ ~locals.result.success
             /\ locals.result.error = "create_agent failed"

C8_Witness ==
    /\ InExecuteTask
    /\ TruthyTok(frame.browser_context_id)
    /\ frame.attempts = 2
    /\ frame.failures = 2
    /\ pc = "main_print"

\* C9: after a failed attach to a 'ws://' hint, a successful fallback and a
\* successful run, the result has success=true and echoes the hint the caller
\* passed, not the cleared one.
C9_EchoesOriginalHint ==
    (/\ InExecuteTask
     /\ startswith_ws(locals.browser_context_id)
     /\ frame.fallbacks = 1
     /\ frame.failures = 1
     /\ frame.run = "returns") =>
        /\ locals.result.success
        /\ "browser_context_id" \in locals.result.keys
        /\ locals.result.browser_context_id = locals.browser_context_id
        /\ \A i \in JsonEntries :
              "browser_context_id" \in stdout[i].doc.keys =>
                  stdout[i].doc.browser_context_id = locals.browser_context_id

C9_Witness ==
    /\ pc = "exit"
    /\ InExecuteTask
    /\ startswith_ws(locals.browser_context_id)
    /\ frame.fallbacks = 1
    /\ frame.run = "returns"
    /\ locals.result.success
    /\ \E i \in JsonEntries : stdout[i].doc.browser_context_id = <<"ws://bad-host/x">>

\* C10: the total_tokens of a successful run is the sum of prompt_tokens +
\* completion_tokens over the records appended during agent.run(), whatever
\* the length of the usage history when the run began.
C10_TotalIsSumOfAppended ==
    (InExecuteTask /\ frame.run = "returns") =>
        locals.result.total_tokens = SumTokens(frame.appended)

\* the entries execute_task counts in the current state
counted_entries ==
    new_entries(agents[self.agent].token_cost_service, usage_history, frame.initial_usage)

\* the usage history as it was when agent.run() began
history_before_run ==
    SubSeq(usage_history, 1, Len(usage_history) - Len(frame.appended))

\* C11: the token usage of a successful run never includes a record that was
\* in the usage history before agent.run() began (such as the records of an
\* earlier run): with k records before the run, the entries counted are empty
\* or exactly the records at index >= k, and total_tokens and total_cost are
\* their sums.
C11_BaselineExcluded ==
    (InExecuteTask /\ frame.run = "returns") =>
        LET k == Len(history_before_run)
        IN  /\ counted_entries \in {<<>>, SubSeq(usage_history, k + 1, Len(usage_history))}
            /\ locals.result.total_tokens = SumTokens(counted_entries)
            /\ locals.result.total_cost = SumCost(counted_entries)
            /\ locals.result.total_tokens <= SumTokens(frame.appended)
            /\ locals.result.total_cost <= SumCost(frame.appended)

C11_Witness ==
    /\ pc = "exit"
    /\ InExecuteTask
    /\ frame.run = "returns"
    /\ history_before_run # <<>>
    /\ Len(frame.appended) = 2
    /\ locals.result.total_tokens = SumTokens(frame.appended)
    /\ locals.result.total_tokens > 0

\* the step ends execute_task: create_agent or agent.run() is left
LeavesExecuteTask ==
    InExecuteTask /\ pc \in {"create_agent", "agent_run"}
                  /\ pc' \notin {"create_agent", "agent_run"}

\* the step ends execute_task with a failure: the last create_agent pass
\* raised (its fallback included) or agent.run() raised
FailsInExecuteTask ==
    LeavesExecuteTask /\ (frame'.failures > frame.failures \/ frame'.run = "raises")

\* C12: execute_task lets no exception of creating the agent (failed fallback
\* included) or of running it through: the step that ends it returns to main
\* at line 596, never into main's except branch, and after a failure the
\* value returned has success=false and error set to the message.
C12_ExecuteTaskCatches ==
    [][/\ LeavesExecuteTask => pc' = "main_print"
       /\ FailsInExecuteTask =>
            /\ ~locals'.result.success
            /\ "error" \in locals'.result.keys
            /\ locals'.result.error =
                  (IF frame'.run = "raises" THEN "agent.run failed"
                   ELSE "create_agent failed")]_vars

C12_Witness ==
    /\ pc = "exit"
    /\ InExecuteTask
    /\ frame.fallbacks = 1
    /\ frame.failures = 2
    /\ ~locals.result.success
    /\ locals.result.error = "create_agent failed"
    /\ ~Printed("task execution failed")
    /\ \E i \in JsonEntries : stdout[i].doc = locals.result

\* the BrowserSession is released: an Agent that was given it closed its browser
session_released(i) ==
    \E a \in 1..Len(agents) : agents[a].browser_session = i /\ agents[a].closed

\* C13: at process exit every BrowserSession constructed in create_agent and
\* the browser of every Agent constructed there has been closed, the ones
\* abandoned by the fallback included.
C13_AllHandlesReleased ==
    pc = "exit" =>
        /\ \A i \in 1..Len(sessions) : session_released(i)
        /\ \A a \in 1..Len(agents) : agents[a].has_browser => agents[a].closed

\* the positions of a diagnostic line in stdout
Lines(text) == {i \in 1..Len(stdout) : stdout[i] = diag(text)}

\* cleanup() was called: line 621 is printed right before the call
CleanupCalls == Lines("cleaning up agent")

\* main's except branch was entered
HandlerEntered == Printed("task execution failed")

\* the error result of main's except branch was written before position j
ErrorResultBefore(j) ==
    \E i \in JsonEntries :
        /\ i < j
        /\ ~stdout[i].doc.success
        /\ "error" \in stdout[i].doc.keys
        /\ \E h \in Lines("task execution failed") : h < i

\* C14: when an error reaches main's except branch, an error result with
\* success=false is written, then cleanup() runs, and only then the process
\* exits, with status 1; when execute_task returns and the result is printed,
\* cleanup() runs exactly once, after execute_task returned, and never twice.
C14_ErrorThenCleanupThenExit ==
    /\ Cardinality(CleanupCalls) <= 1
    /\ exit_code # <<>> => pc = "exit"
    /\ (HandlerEntered /\ pc = "exit") =>
          /\ Exited(1)
          /\ Cardinality(CleanupCalls) = 1
          /\ \A j \in CleanupCalls : ErrorResultBefore(j)
    /\ (InExecuteTask /\ ~HandlerEntered /\ pc = "exit") =>
          /\ Cardinality(CleanupCalls) = 1
          /\ \A j \in CleanupCalls :
                \E i \in Lines("task completed") \cup Lines("task failed") : i < j

C14_Witness ==
    /\ pc = "exit"
    /\ HandlerEntered
    /\ InExecuteTask
    /\ frame.run = "returns"
    /\ Exited(1)
    /\ agents[self.agent].closed
    /\ \E j \in CleanupCalls : ErrorResultBefore(j)

\* the requests sent to an endpoint, by position in the log
Sent(url) == {i \in 1..Len(http) : http[i].url = url}

Submitted ==
    /\ locals.use_api
    /\ Len(http) >= 2
    /\ http[2].response = "200"
    /\ Truthy(locals.payload.taskId)

\* C16: an --api run whose submission succeeded and returned a task id sends
\* exactly one status GET for that task id.
C16_OneStatusGet ==
    (pc = "exit" /\ Submitted) =>
        Cardinality({i \in Sent("/api/browser-use/status") :
                        http[i].id = locals.payload.taskId}) = 1

\* a request of the run answered with a non-200 status or raised
FailedRequests == {i \in 1..Len(http) : http[i].response \in {"500", "error"}}

\* C17: an --api run in which a request (create, submit or status) answered
\* non-200 or raised ends with a JSON result that has success=false and an
\* error message, and a run whose status check failed is not reported as
\* completed successfully.
C17_ApiFailureSurfaced ==
    (pc = "exit" /\ locals.use_api /\ FailedRequests # {}) =>
        /\ \E i \in JsonEntries :
              ~stdout[i].doc.success /\ "error" \in stdout[i].doc.keys
        /\ ~Printed("completed via API")

\* the task argument with the flag taken out, as line 478 leaves it
WithoutApi(token) == strip(remove(sanitize_token(token), API))

\* C18: when the task argument contains --api anywhere inside it, parsing
\* succeeds, selects the --api path and takes as the task the whole remaining
\* text of the argument; when it is the only argument, none of its words
\* becomes max_steps, the session id or the hint.
C18_EmbeddedApiFlag ==
    (/\ pc # "main"
     /\ Len(argv) >= 1
     /\ Contains(argv[1], API)
     /\ WithoutApi(argv[1]) # <<>>) =>
        /\ locals.outcome = "ok"
        /\ locals.use_api
        /\ locals.task = WithoutApi(argv[1])
        /\ Len(argv) = 1 =>
              /\ locals.max_steps = 10
              /\ locals.session_id = NoneTok
              /\ locals.browser_context_id = NoneTok

\* C19: a JSON result document is the last thing written to stdout: once it
\* is printed no diagnostic line follows it, the lines of cleanup included.
C19_JsonIsLast ==
    \A i \in JsonEntries : i = Len(stdout)

\* C20: when the first create_agent pass attached to a 'ws://' hint and the
\* failure comes from agent.run(), execute_task falls back once: a second
\* pass without the hint runs before a result is returned.
C20_FallbackAfterRunFailure ==
    (/\ InExecuteTask
     /\ startswith_ws(frame.browser_context_id)
     /\ frame.failures = 0
     /\ frame.run = "raises") =>
        /\ frame.fallbacks = 1
        /\ frame.attempts = 2
        /\ frame.hint = <<>>

\* C21: when the hint is absent or does not start with 'ws://', create_agent
\* constructs no BrowserSession and makes one pass only: a failure of that
\* pass is raised to execute_task without a second pass.
C21_NoRetryWithoutWsHint ==
    (InExecuteTask /\ ~startswith_ws(frame.browser_context_id)) =>
        /\ sessions = <<>>
        /\ frame.attempts <= 1
        /\ frame.fallbacks = 0
        /\ frame.failures = 1 =>
              pc \notin {"create_agent", "agent_run"} /\ ~locals.result.success

\* the step is the fallback call of create_agent
FallbackStep == InExecuteTask /\ frame'.fallbacks = frame.fallbacks + 1

\* the step is a fallback pass that constructs an Agent
FallbackBuildsAgent ==
    /\ InExecuteTask
    /\ pc = "create_agent"
    /\ frame.fallbacks = 1
    /\ Len(agents') = Len(agents) + 1

\* C22: the fallback re-enters create_agent with the task and max_steps of
\* the failed call and the hint cleared; the Agent the fallback pass builds has
\* that task and max_steps, no BrowserSession, and the LLM of the object, which
\* no pass changes.
C22_FallbackReinvokesSame ==
    [][/\ FallbackStep =>
            /\ pc' = "create_agent"
            /\ frame'.ca_task = frame.task
            /\ frame'.ca_max_steps = frame.max_steps
            /\ frame'.hint = <<>>
            /\ self'.llm = self.llm
       /\ FallbackBuildsAgent =>
            /\ sessions' = sessions
            /\ agents'[Len(agents')].browser_session = 0
            /\ agents'[Len(agents')].task = frame.task
            /\ agents'[Len(agents')].max_steps = frame.max_steps
            /\ agents'[Len(agents')].llm = self.llm
            /\ self'.llm = self.llm
            /\ \A a \in 1..Len(agents) : agents[a].llm = self.llm]_vars

C22_Witness ==
    /\ pc = "agent_run"
    /\ InExecuteTask
    /\ startswith_ws(frame.browser_context_id)
    /\ frame.fallbacks = 1
    /\ frame.max_steps = 15
    /\ Len(sessions) = 1
    /\ Len(agents) = 2
    /\ agents[1].browser_session = 1
    /\ agents[2].browser_session = 0
    /\ agents[2].max_steps = 15
    /\ agents[2].llm = agents[1].llm
    /\ self.agent = 2

\* C23: the two paths exclude each other within a run: with the --api flag no
\* provider is resolved, no BrowserSession or Agent is constructed and
\* execute_task is not called; without it no request is sent to the platform.
C23_PathsExclusive ==
    TaskSupplied =>
        /\ locals.use_api =>
              /\ clients = 0
              /\ self.llm = NoLLM
              /\ sessions = <<>>
              /\ agents = <<>>
              /\ ~InExecuteTask
              /\ pc \notin {"local_construct", "create_agent", "agent_run", "main_print",
                             "main_except", "cleanup", "cleanup_exiting"}
        /\ ~locals.use_api =>
              /\ http = <<>>
              /\ pc \notin {"api_construct", "api_create", "api_execute",
                             "api_monitor_1", "api_monitor_2", "api_print"}

C23_Witness ==
    /\ pc = "exit"
    /\ TaskSupplied
    /\ locals.use_api
    /\ AnyComplete(Loaded)
    /\ self.constructed
    /\ Len(http) = 4
    /\ clients = 0
    /\ JsonEntries # {}

\* C24: the provider named in a result of execute_task (llm_provider, the model
\* of token_usage, and the deployment) is the provider setup_llm resolved for
\* the run, also when the preference had incomplete credentials and Azure was
\* resolved instead.
C24_ReportsResolvedProvider ==
    (InExecuteTask /\ locals.result.keys # {}) =>
        /\ locals.result.llm_provider = self.llm.kind
        /\ "token_usage" \in locals.result.keys =>
              locals.result.model = self.llm.kind
        /\ "deployment" \in locals.result.keys =>
              locals.result.deployment =
                  (IF self.llm.kind = "azure" THEN self.azure_deployment ELSE "N/A")

\* the step runs the finally block of main, cleanup() included
CleanupStep == pc \in {"cleanup", "cleanup_exiting"}

\* C25: cleanup() returns to main whatever close() did: line 623 is printed
\* after it, the documents already written and the result stay as they were,
\* and the exit status is the one pending before (0 after a completed try
\* block, 1 after sys.exit(1)); with no Agent created cleanup() closes and
\* prints nothing.
C25_CleanupNeverRaises ==
    [][CleanupStep =>
         /\ pc' = "exit"
         /\ exit_code' = (IF pc = "cleanup" THEN <<0>> ELSE <<1>>)
         /\ Len(stdout') > Len(stdout)
         /\ SubSeq(stdout', 1, Len(stdout)) = stdout
         /\ stdout'[Len(stdout')] = diag("finished")
         /\ \A i \in (Len(stdout) + 1)..Len(stdout') : stdout'[i].kind = "diag"
         /\ locals' = locals
         /\ sessions' = sessions
         /\ self.agent = 0 =>
               /\ agents' = agents
               /\ stdout' = stdout \o <<diag("cleaning up agent"), diag("finished")>>]_vars

C25_Witness ==
    /\ pc = "exit"
    /\ InExecuteTask
    /\ locals.result.success
    /\ Printed("error during cleanup")
    /\ Printed("finished")
    /\ ~agents[self.agent].closed
    /\ Exited(0)
    /\ \E i \in JsonEntries : stdout[i].doc = locals.result

====
